---------------------------- MODULE Spec2Model ----------------------------
(***************************************************************************)
(* Batch conversion pipeline of WebP Master.                               *)
(*   ImageConverter (src/src/services/ImageConverter.ts): convertToWebP,   *)
(*   convertMultiple, cancelConversion, cancelAllConversions, dispose,     *)
(*   the listeners and the three notify methods.                           *)
(*   FileHandler (src/src/services/FileHandler.ts): validateFiles,         *)
(*   processFileSelection.                                                 *)
(*   Application (src/unnamed/part_005): the statistics, reset, getStats.  *)
(* JavaScript runs the code between two awaits without interruption, so    *)
(* every action below is one such run of a handler or a continuation.      *)
(***************************************************************************)
EXTENDS Integers, Sequences, FiniteSets, TLC

\* ----------------------------------------------------------------- bounds
MaxFiles == 4          \* longest file list handed to convertMultiple
MaxConcurrent == 2     \* largest config.maxConcurrentConversions tried
MaxDescent == 2        \* a descending loop index is followed down to -MaxDescent
MaxDistinctFiles == 2  \* files of a validated batch chosen freely
MaxPadding == 21       \* copies of the last file appended to a batch
MaxSelections == 2     \* calls of processFileSelection that are followed
MaxResults == 3        \* completion events recorded between two resets
MaxErrorEvents == 2    \* error events counted between two resets
MaxListeners == 2      \* listeners subscribed to one event
MaxDirectCalls == 2    \* convertToWebP calls made on the converter directly
MaxListenedFiles == 2  \* files converted in front of listeners that throw
MaxEmitted == 2        \* events of one kind a listener is called with

\* ------------------------------------------------------ program constants
MAX_FILE_SIZE_MB == 10
MAX_FILES_PER_BATCH == 20
MiB == 1024 * 1024
WarningThreshold == 5 * 1024 * 1024
SUPPORTED_FORMATS == {"image/png", "image/jpeg", "image/jpg"}

VARIABLES
  isDisposed,        \* ImageConverter.isDisposed
  activeConversions, \* ImageConverter.activeConversions: id -> conversion
                     \* owning the AbortController (0: no entry)
  files,             \* argument of the running convertMultiple call
  maxConcurrent,     \* config.maxConcurrentConversions of that call
  mpc,               \* position of the convertMultiple call
  i,                 \* its loop index
  results,           \* its results array (conversions, in push order)
  pc,                \* position of the convertToWebP call of each file
  convId,            \* conversionId of each convertToWebP call (0: none)
  aborted,           \* abortController.signal.aborted of each call
  progressEvents,    \* ProgressInfos passed to reportProgress, per call
  completeEvents,    \* calls of notifyConversionComplete, per call
  errorEvents,       \* ConversionErrors passed to notifyConversionError
  cancelRequested,   \* cancelConversion found this call's controller
  activeAtNotify,    \* the id of the call was in the registry when its
                     \* completion or error listeners were called
  canvas,            \* ImageConverter.canvas: the call whose image was
                     \* drawn on it last (0: blank)
  progressCallbacks, \* ImageConverter.progressCallbacks
  completeCallbacks, \* ImageConverter.completeCallbacks
  errorCallbacks,    \* ImageConverter.errorCallbacks
  calls,             \* per event, how often each listener was called
  candidate,         \* FileInfo[] handed to validateFiles
  validation,        \* the ValidationResult it returned (<<>> before the call)
  selectedFiles,     \* FileHandler.selectedFiles
  fileSelectedCalls, \* calls of the files-selected listener of Application
  selectionError,    \* <<error>> thrown by the last processFileSelection
  selectionCalls,    \* number of processFileSelection calls so far
  stats,             \* Application.stats
  recorded,          \* results handed to updateStats since the last reset
  lastResult,        \* <<result>> of the last completion event
  snapshot,          \* <<object>> the last getStats call returned
  lastOp,            \* the handler of Application that ran last
  secondCall,        \* the locals of a second convertMultiple call: files,
                     \* maxConcurrent, mpc, i and results
  lastCall           \* <<call>>: the last call that was recorded, with its
                     \* method, its argument and what it returned or threw

callbackVars == <<progressCallbacks, completeCallbacks, errorCallbacks>>
\* The converter but for its callback arrays.
converterVars == <<isDisposed, activeConversions, files, maxConcurrent, mpc,
                   i, results, pc, convId, aborted, progressEvents,
                   completeEvents, errorEvents, cancelRequested,
                   activeAtNotify, canvas, calls>>
pipelineVars == <<converterVars, callbackVars>>
validationVars == <<candidate, validation>>
selectionVars == <<selectedFiles, fileSelectedCalls, selectionError,
                   selectionCalls>>
\* What the converter leaves alone, and what the file handler leaves alone.
statsVars == <<stats, recorded, lastResult, snapshot, lastOp>>
callVars == <<lastCall, secondCall>>
frontVars == <<validationVars, selectionVars, statsVars, callVars>>
vars == <<pipelineVars, validationVars, selectionVars, statsVars, callVars>>

FileIds == 1..MaxFiles
IdSpace == FileIds
ConcurrencyValues == -1..MaxConcurrent

Min(a, b) == IF a < b THEN a ELSE b
Max(a, b) == IF a > b THEN a ELSE b

\* ------------------------------------------------------------ pure helpers
\* Array.prototype.slice(start, end) on a sequence (0-based, end exclusive,
\* negative indices count from the end).
RelIndex(n, len) == IF n < 0 THEN Max(len + n, 0) ELSE Min(n, len)
Slice(s, start, end) ==
  LET from == RelIndex(start, Len(s))
      to == RelIndex(end, Len(s))
  IN  IF to <= from THEN <<>> ELSE SubSeq(s, from + 1, to)

Range(s) == {s[x] : x \in 1..Len(s)}

\* String.prototype.includes on a message held as its sequence of words.
Includes(message, word) == \E x \in 1..Len(message) : message[x] = word

\* A value that is thrown: new Error(message), or a string thrown as it is.
Error(message) == [class |-> "Error", message |-> message]
ThrownString(text) == [class |-> "String", message |-> text]

\* String(error) of a thrown value.
String(error) ==
  IF error.class = "Error" THEN <<"Error:">> \o error.message
  ELSE error.message

\* The Errors the stages of convertToWebP throw.
CancelledError == Error(<<"Conversion", "was", "cancelled">>)
ReadErrors == {Error(<<"Failed", "to", "load", "image">>)}
EncodeError == Error(<<"Failed", "to", "convert", "image", "to", "WebP">>)

\* Messages of the ConversionError (the Japanese texts of the source).
CancelledMessage == <<"conversion-cancelled">>
WebPMessage == <<"webp-not-supported">>
TooLargeMessage == <<"file-too-large">>
ProcessingPrefix == <<"processing-failed:">>
UnknownMessage == <<"Unknown", "error", "occurred">>

\* Variant of createConversionError: an Error whose message names no known
\* cause is left with the type and the message of the start.
createConversionErrorUnknown(id, fileName, error) ==
  LET message == error.message
      known == /\ error.class = "Error"
               /\ \/ Includes(message, "cancelled")
                  \/ Includes(message, "WebP")
                  \/ Includes(message, "size")
                  \/ Includes(message, "large")
      errorType ==
        IF ~known THEN "unknown_error"
        ELSE IF Includes(message, "cancelled") THEN "processing_error"
        ELSE IF Includes(message, "WebP") THEN "browser_compatibility"
        ELSE "file_too_large"
      text ==
        IF ~known THEN UnknownMessage
        ELSE IF Includes(message, "cancelled") THEN CancelledMessage
        ELSE IF Includes(message, "WebP") THEN WebPMessage
        ELSE TooLargeMessage
  IN  [id |-> id, fileName |-> fileName, errorType |-> errorType,
       message |-> text, details |-> String(error)]

createConversionError(id, fileName, error) ==
  LET message == error.message
      errorType ==
        IF error.class # "Error" THEN "unknown_error"
        ELSE IF Includes(message, "cancelled") THEN "processing_error"
        ELSE IF Includes(message, "WebP") THEN "browser_compatibility"
        ELSE IF Includes(message, "size") \/ Includes(message, "large")
             THEN "file_too_large"
        ELSE "processing_error"
      text ==
        IF error.class # "Error" THEN UnknownMessage
        ELSE IF Includes(message, "cancelled") THEN CancelledMessage
        ELSE IF Includes(message, "WebP") THEN WebPMessage
        ELSE IF Includes(message, "size") \/ Includes(message, "large")
             THEN TooLargeMessage
        ELSE ProcessingPrefix \o message
  IN  [id |-> id, fileName |-> fileName, errorType |-> errorType,
       message |-> text, details |-> String(error)]

\* A chunk of Promise.all: rejected as soon as one promise is rejected,
\* fulfilled once all are fulfilled.
Rejected(f) == pc[f] \in {"failed", "refused"}
Fulfilled(f) == pc[f] = "completed"
InFlight(f) == pc[f] \in {"reading", "processing", "converting"}

\* -------------------------------------------------------------- listeners
ListenerIds == 1..MaxListeners
Behaviours == {"returns", "throws"}
Events == {"progress", "complete", "error"}

\* What a progress listener may call on the converter while it runs.
ListenerCalls == {"nothing", "cancelConversion", "cancelAllConversions"}

\* A listener: how its call ends, and the calls it may make on the converter.
\* The callbacks of one event in the order onConversion... pushed them; the
\* listeners of these lists call nothing.
ListenerLists ==
  UNION {{[x \in 1..n |-> [id |-> x, behaviour |-> b[x], mayCall |-> {}]] :
            b \in [1..n -> Behaviours]} : n \in 0..MaxListeners}

\* A progress listener that may cancel the conversion it is told about, and
\* one that may cancel them all.
CancellingListener ==
  [id |-> 1, behaviour |-> "returns", mayCall |-> {"cancelConversion"}]
CancellingAllListener ==
  [id |-> 1, behaviour |-> "returns", mayCall |-> {"cancelAllConversions"}]

\* The calls the listeners of cbs may make during one dispatch.
CallsOf(cbs) == {"nothing"} \cup UNION {cbs[x].mayCall : x \in 1..Len(cbs)}

\* The Error a listener throws.
ListenerError == Error(<<"listener", "failed">>)

RECURSIVE forEach(_, _, _)
RECURSIVE forEachUncaught(_, _, _)
\* Variant of forEach: the callback is called outside try/catch, so the
\* exception of a listener ends the loop and leaves the notify method.
forEachUncaught(cbs, n, counts) ==
  IF n > Len(cbs) THEN [counts |-> counts, escaped |-> FALSE]
  ELSE LET counted == [counts EXCEPT ![cbs[n].id] = @ + 1]
       IN  IF cbs[n].behaviour = "throws"
           THEN [counts |-> counted, escaped |-> TRUE]
           ELSE forEachUncaught(cbs, n + 1, counted)

\* callbacks.forEach(callback => { try { callback(event) } catch { log } }):
\* every callback from the n-th on is called once, what it throws is caught.
forEach(cbs, n, counts) ==
  IF n > Len(cbs) THEN [counts |-> counts, escaped |-> FALSE]
  ELSE forEach(cbs, n + 1, [counts EXCEPT ![cbs[n].id] = @ + 1])

\* reportProgress, notifyConversionComplete, notifyConversionError: the
\* calls record cs after the event went to the listeners in cbs, and whether
\* an exception left the method.
notify(event, cbs, cs) ==
  LET d == forEach(cbs, 1, cs[event])
  IN  [calls |-> [cs EXCEPT ![event] = d.counts], escaped |-> d.escaped]

\* ---------------------------------------------------- cancellation, on the
\* registry and the controllers held in a record st with the fields reg, ab
\* and cr.
\* Variant of cancelConversionIn: the controller is aborted, its entry stays.
cancelConversionInKeepsEntry(st, id) ==
  LET owner == st.reg[id]
  IN  IF owner # 0
      THEN [st EXCEPT !.ab[owner] = TRUE, !.cr[owner] = TRUE]
      ELSE st

cancelConversionIn(st, id) ==
  LET owner == st.reg[id]
  IN  IF owner # 0
      THEN [st EXCEPT !.reg[id] = 0, !.ab[owner] = TRUE, !.cr[owner] = TRUE]
      ELSE st

cancelAllConversionsIn(st) ==
  [st EXCEPT
     !.ab = [f \in DOMAIN st.ab |->
               IF \E id \in DOMAIN st.reg : st.reg[id] = f THEN TRUE
               ELSE st.ab[f]],
     !.reg = [id \in DOMAIN st.reg |-> 0]]

\* The call a progress listener makes when it is told about conversion id.
listenerCallIn(st, id, call) ==
  IF call = "cancelConversion" THEN cancelConversionIn(st, id)
  ELSE IF call = "cancelAllConversions" THEN cancelAllConversionsIn(st)
  ELSE st

\* The synchronous head of convertToWebP for the files of one chunk, in the
\* order of batch.map: generateId, activeConversions.set, reportProgress
\* (READING), whose listener may call the converter; an exception that left
\* reportProgress would be caught by the catch block of convertToWebP.
RECURSIVE startAll(_, _, _, _, _)
startAll(batch, n, st, ids, listenerCalls) ==
  IF n > Len(batch) THEN st
  ELSE LET f == batch[n]
           registered == [st EXCEPT !.reg[ids[f]] = f]
           told == notify("progress", progressCallbacks, st.calls)
           after == listenerCallIn(registered, ids[f], listenerCalls[f])
           next ==
             IF told.escaped
             THEN [after EXCEPT
                     !.reg[ids[f]] = 0,
                     !.calls = notify("error", errorCallbacks,
                                      told.calls).calls,
                     !.thrown = @ \cup {f}]
             ELSE [after EXCEPT !.calls = told.calls]
       IN  startAll(batch, n + 1, next, ids, listenerCalls)

\* --------------------------------------------------- numbers of Application
\* A JavaScript number that is a quotient of integers, held in lowest terms
\* as <<numerator, denominator>> with a positive denominator.
Abs(n) == IF n < 0 THEN -n ELSE n
RECURSIVE GCD(_, _)
GCD(a, b) == IF b = 0 THEN a ELSE GCD(b, a % b)
Quotient(n, d) ==
  LET g == GCD(Abs(n), d) IN <<n \div g, d \div g>>
Zero == Quotient(0, 1)
Times(q, n) == Quotient(q[1] * n, q[2])
Plus(q, n) == Quotient(q[1] + n * q[2], q[2])
Over(q, n) == Quotient(q[1], q[2] * n)

\* Math.round of the quotient n / d (d > 0): the nearest integer, a half
\* going up.
MathRound(n, d) == (2 * n + d) \div (2 * d)

initializeStats ==
  [totalFilesProcessed |-> 0, totalSizeReduced |-> 0,
   averageCompressionRatio |-> Zero, averageProcessingTime |-> Zero,
   successfulConversions |-> 0, failedConversions |-> 0]

\* The locals of a convertMultiple call that has not been made.
NoCall ==
  [files |-> <<>>, maxConcurrent |-> 0, mpc |-> "idle", i |-> 0,
   results |-> <<>>]

\* ------------------------------------------------------------------- Init
\* The converter, the file handler and the application after construction,
\* but for the listeners.
InitState ==
  /\ isDisposed = FALSE
  /\ activeConversions = [id \in IdSpace |-> 0]
  /\ files = <<>>
  /\ maxConcurrent = 0
  /\ mpc = "idle"
  /\ i = 0
  /\ results = <<>>
  /\ pc = [f \in FileIds |-> "none"]
  /\ convId = [f \in FileIds |-> 0]
  /\ aborted = [f \in FileIds |-> FALSE]
  /\ progressEvents = [f \in FileIds |-> <<>>]
  /\ completeEvents = [f \in FileIds |-> 0]
  /\ errorEvents = [f \in FileIds |-> <<>>]
  /\ cancelRequested = [f \in FileIds |-> FALSE]
  /\ activeAtNotify = [f \in FileIds |-> FALSE]
  /\ canvas = 0
  /\ candidate = <<>>
  /\ validation = <<>>
  /\ selectedFiles = <<>>
  /\ fileSelectedCalls = 0
  /\ selectionError = <<>>
  /\ selectionCalls = 0
  /\ stats = initializeStats
  /\ recorded = <<>>
  /\ lastResult = <<>>
  /\ snapshot = <<>>
  /\ lastOp = "none"
  /\ lastCall = <<>>
  /\ secondCall = NoCall
  /\ calls = [event \in Events |-> [l \in ListenerIds |-> 0]]

\* One progress listener is subscribed, which may call cancelConversion.
Init ==
  /\ InitState
  /\ progressCallbacks = <<CancellingListener>>
  /\ completeCallbacks = <<>>
  /\ errorCallbacks = <<>>

\* One progress listener is subscribed, which may call cancelAllConversions.
InitCancelAll ==
  /\ InitState
  /\ progressCallbacks = <<CancellingAllListener>>
  /\ completeCallbacks = <<>>
  /\ errorCallbacks = <<>>

\* As many listeners as are followed are subscribed to each event; they
\* return and call nothing.
PlainListeners ==
  [x \in 1..MaxListeners |->
     [id |-> x, behaviour |-> "returns", mayCall |-> {}]]
InitSubscribed ==
  /\ InitState
  /\ progressCallbacks = PlainListeners
  /\ completeCallbacks = PlainListeners
  /\ errorCallbacks = PlainListeners

\* Any listeners are subscribed, some of which throw.
InitListeners ==
  /\ InitState
  /\ progressCallbacks \in ListenerLists
  /\ completeCallbacks \in ListenerLists
  /\ errorCallbacks \in ListenerLists

\* generateId() for the conversions of one chunk: Date.now() followed by
\* Math.random(), both in base 36; the ids of one session are taken to be
\* distinct, each conversion getting the id that stands for it.
generateId(batch) == {[f \in Range(batch) |-> f]}

ProgressInfo(id, stage, percent) ==
  [id |-> id, stage |-> stage, progress |-> percent]

\* convertToWebP of every file of batch up to its first await.
startChunk(batch, ids, listenerCalls) ==
  LET st == startAll(batch, 1,
              [reg |-> activeConversions, ab |-> aborted,
               cr |-> cancelRequested, calls |-> calls, thrown |-> {}],
              ids, listenerCalls)
  IN  /\ \A f \in Range(batch) : listenerCalls[f] \in CallsOf(progressCallbacks)
      /\ activeConversions' = st.reg
      /\ aborted' = st.ab
      /\ cancelRequested' = st.cr
      /\ calls' = st.calls
      /\ convId' = [f \in FileIds |->
           IF f \in Range(batch) THEN ids[f] ELSE convId[f]]
      /\ pc' = [f \in FileIds |->
           IF f \in st.thrown THEN "failed"
           ELSE IF f \in Range(batch) THEN "reading" ELSE pc[f]]
      /\ progressEvents' = [f \in FileIds |->
           IF f \in Range(batch)
           THEN Append(progressEvents[f], ProgressInfo(ids[f], "reading", 0))
           ELSE progressEvents[f]]
      /\ errorEvents' = [f \in FileIds |->
           IF f \in st.thrown
           THEN Append(errorEvents[f],
                       createConversionError(ids[f], f, ListenerError))
           ELSE errorEvents[f]]
      /\ activeAtNotify' = [f \in FileIds |->
           IF f \in st.thrown THEN st.reg[ids[f]] = f ELSE activeAtNotify[f]]
      /\ UNCHANGED canvas

\* ------------------------------------------------- convertMultiple, the loop
\* One pass of the for statement from its test: with index idx and results
\* res, either the next chunk is sliced and every convertToWebP of it runs up
\* to its first await, or the loop ends and the call returns res.
loopFrom(fs, k, idx, res) ==
  /\ idx >= -MaxDescent
  /\ i' = idx
  /\ results' = res
  /\ IF idx < Len(fs)
     THEN LET batch == Slice(fs, idx, idx + k)
          IN  /\ mpc' = "awaiting"
              /\ IF isDisposed
                 THEN \* ensureNotDisposed throws: the promise is rejected
                      /\ pc' = [f \in FileIds |->
                                 IF f \in Range(batch) THEN "refused" ELSE pc[f]]
                      /\ UNCHANGED <<activeConversions, convId, canvas, aborted,
                                     cancelRequested, progressEvents,
                                     errorEvents, activeAtNotify, calls>>
                 ELSE \E ids \in generateId(batch),
                         listenerCalls \in [Range(batch) -> ListenerCalls] :
                        startChunk(batch, ids, listenerCalls)
     ELSE /\ mpc' = "returned"
          /\ UNCHANGED <<activeConversions, convId, canvas, aborted, cancelRequested,
                         pc, progressEvents, errorEvents, activeAtNotify, calls>>

\* convertMultiple(files, config) up to its first await (or its return), as
\* far as the converter is concerned.
convertMultipleCall(fs, k) ==
  /\ mpc = "idle"
  /\ files' = fs
  /\ maxConcurrent' = k
  /\ IF isDisposed
     THEN /\ mpc' = "rejected"
          /\ UNCHANGED <<i, results, activeConversions, convId, canvas, aborted,
                         cancelRequested, pc, progressEvents, errorEvents, activeAtNotify,
                         calls>>
     ELSE loopFrom(fs, k, 0, <<>>)
  /\ UNCHANGED <<isDisposed, completeEvents, callbackVars>>

\* A call of convertMultiple made on the converter directly.
convertMultiple(fs, k) ==
  /\ convertMultipleCall(fs, k)
  /\ UNCHANGED frontVars

\* Variant of chunkSettled: a rejected chunk ends the loop, the files after
\* it are never started.
chunkSettledEndsBatch ==
  /\ mpc = "awaiting"
  /\ LET batch == Slice(files, i, i + maxConcurrent)
     IN  \/ /\ \E f \in Range(batch) : Rejected(f)
            /\ loopFrom(files, maxConcurrent, Max(i, Len(files)), results)
         \/ /\ \A f \in Range(batch) : Fulfilled(f)
            /\ loopFrom(files, maxConcurrent, i + maxConcurrent,
                        results \o batch)
  /\ UNCHANGED <<files, maxConcurrent, isDisposed, completeEvents,
                 callbackVars, frontVars>>

\* Variant of chunkSettled: no try/catch around the await, the rejection of
\* a chunk rejects convertMultiple.
chunkSettledNoCatch ==
  /\ mpc = "awaiting"
  /\ LET batch == Slice(files, i, i + maxConcurrent)
     IN  \/ /\ \E f \in Range(batch) : Rejected(f)
            /\ mpc' = "rejected"
            /\ UNCHANGED <<i, results, activeConversions, convId, canvas, aborted,
                           cancelRequested, pc, progressEvents, errorEvents, activeAtNotify,
                           calls>>
         \/ /\ \A f \in Range(batch) : Fulfilled(f)
            /\ loopFrom(files, maxConcurrent, i + maxConcurrent,
                        results \o batch)
  /\ UNCHANGED <<files, maxConcurrent, isDisposed, completeEvents,
                 callbackVars, frontVars>>

\* The continuation of `await Promise.all(batchPromises)`: the results of a
\* fulfilled chunk are pushed, a rejected chunk is logged, and the loop goes
\* on with i += maxConcurrent.
chunkSettled ==
  /\ mpc = "awaiting"
  /\ LET batch == Slice(files, i, i + maxConcurrent)
     IN  \/ /\ \E f \in Range(batch) : Rejected(f)
            /\ loopFrom(files, maxConcurrent, i + maxConcurrent, results)
         \/ /\ \A f \in Range(batch) : Fulfilled(f)
            /\ loopFrom(files, maxConcurrent, i + maxConcurrent,
                        results \o batch)
  /\ UNCHANGED <<files, maxConcurrent, isDisposed, completeEvents,
                 callbackVars, frontVars>>

\* --------------------------------------------- convertToWebP, stage by stage
\* Variant of fail: a cancelled conversion is dropped without telling the
\* error listeners.
failCancelSilently(f, error) ==
  /\ activeConversions' = [activeConversions EXCEPT ![convId[f]] = 0]
  /\ activeAtNotify' = [activeAtNotify EXCEPT
       ![f] = activeConversions'[convId[f]] # 0]
  /\ errorEvents' = [errorEvents EXCEPT
       ![f] = IF error = CancelledError THEN @
              ELSE Append(@, createConversionError(convId[f], f, error))]
  /\ calls' = IF error = CancelledError THEN calls
              ELSE notify("error", errorCallbacks, calls).calls
  /\ pc' = [pc EXCEPT ![f] = "failed"]
  /\ UNCHANGED <<aborted, cancelRequested, progressEvents, completeEvents>>

\* The catch block: the id leaves the registry, the error is classified and
\* passed to the error listeners, the promise is rejected.
fail(f, error) ==
  /\ activeConversions' = [activeConversions EXCEPT ![convId[f]] = 0]
  /\ activeAtNotify' = [activeAtNotify EXCEPT
       ![f] = activeConversions'[convId[f]] # 0]
  /\ errorEvents' = [errorEvents EXCEPT
       ![f] = Append(@, createConversionError(convId[f], f, error))]
  /\ calls' = notify("error", errorCallbacks, calls).calls
  /\ pc' = [pc EXCEPT ![f] = "failed"]
  /\ UNCHANGED <<aborted, cancelRequested, progressEvents, completeEvents>>

\* The catch block entered by an exception that left a notify method: st
\* and cs are the registry, the controllers and the calls at that moment.
catch(f, st, cs) ==
  /\ activeConversions' = [st.reg EXCEPT ![convId[f]] = 0]
  /\ activeAtNotify' = [activeAtNotify EXCEPT
       ![f] = activeConversions'[convId[f]] # 0]
  /\ aborted' = st.ab
  /\ cancelRequested' = st.cr
  /\ errorEvents' = [errorEvents EXCEPT
       ![f] = Append(@, createConversionError(convId[f], f, ListenerError))]
  /\ calls' = notify("error", errorCallbacks, cs).calls
  /\ pc' = [pc EXCEPT ![f] = "failed"]

\* Variant of progress: the event is passed to the listeners twice.
progressRepeated(f, stage, percent, listenerCall) ==
  LET told == notify("progress", progressCallbacks,
                     notify("progress", progressCallbacks, calls).calls)
      st == listenerCallIn([reg |-> activeConversions, ab |-> aborted,
                            cr |-> cancelRequested], convId[f], listenerCall)
  IN  /\ listenerCall \in CallsOf(progressCallbacks)
      /\ progressEvents' = [progressEvents EXCEPT
           ![f] = @ \o <<ProgressInfo(convId[f], stage, percent),
                         ProgressInfo(convId[f], stage, percent)>>]
      /\ IF told.escaped
         THEN catch(f, st, told.calls)
         ELSE /\ activeConversions' = st.reg
              /\ aborted' = st.ab
              /\ cancelRequested' = st.cr
              /\ calls' = told.calls
              /\ pc' = [pc EXCEPT ![f] = stage]
              /\ UNCHANGED <<errorEvents, activeAtNotify>>
      /\ UNCHANGED completeEvents

\* reportProgress(stage) and the start of that stage; a progress listener
\* may call cancelConversion with the id of the event, or
\* cancelAllConversions.
progress(f, stage, percent, listenerCall) ==
  LET told == notify("progress", progressCallbacks, calls)
      st == listenerCallIn([reg |-> activeConversions, ab |-> aborted,
                            cr |-> cancelRequested], convId[f], listenerCall)
  IN  /\ listenerCall \in CallsOf(progressCallbacks)
      /\ progressEvents' = [progressEvents EXCEPT
           ![f] = Append(@, ProgressInfo(convId[f], stage, percent))]
      /\ IF told.escaped
         THEN catch(f, st, told.calls)
         ELSE /\ activeConversions' = st.reg
              /\ aborted' = st.ab
              /\ cancelRequested' = st.cr
              /\ calls' = told.calls
              /\ pc' = [pc EXCEPT ![f] = stage]
              /\ UNCHANGED <<errorEvents, activeAtNotify>>
      /\ UNCHANGED completeEvents

\* readFileAsImage settles; checkAborted; progress PROCESSING.
readSettledStep(f, ok, error, listenerCall) ==
  /\ pc[f] = "reading"
  /\ IF ~ok THEN fail(f, error)
     ELSE IF aborted[f] THEN fail(f, CancelledError)
     ELSE progress(f, "processing", 25, listenerCall)
  /\ UNCHANGED <<isDisposed, files, maxConcurrent, mpc, i, results, convId,
                 canvas, callbackVars>>

\* The same with listeners that leave the file handler and the application
\* as they are.
readSettled(f, ok, error, listenerCall) ==
  /\ readSettledStep(f, ok, error, listenerCall)
  /\ UNCHANGED frontVars

\* processImage settles (it returns the image as it is); checkAborted;
\* progress CONVERTING; convertToWebPBlob sizes the canvas of the converter
\* to the image, draws the image on it and requests canvas.toBlob.
processSettledStep(f, listenerCall) ==
  /\ pc[f] = "processing"
  /\ IF aborted[f]
     THEN /\ fail(f, CancelledError)
          /\ UNCHANGED canvas
     ELSE /\ progress(f, "converting", 50, listenerCall)
          /\ canvas' = IF pc'[f] = "converting" THEN f ELSE canvas
  /\ UNCHANGED <<isDisposed, files, maxConcurrent, mpc, i, results, convId,
                 callbackVars>>

\* Variant of processSettled: the token is not checked after the stage.
processSettledUnchecked(f, listenerCall) ==
  /\ pc[f] = "processing"
  /\ progress(f, "converting", 50, listenerCall)
  /\ canvas' = IF pc'[f] = "converting" THEN f ELSE canvas
  /\ UNCHANGED <<isDisposed, files, maxConcurrent, mpc, i, results, convId,
                 callbackVars, frontVars>>

processSettled(f, listenerCall) ==
  /\ processSettledStep(f, listenerCall)
  /\ UNCHANGED frontVars

\* convertToWebPBlob settles; checkAborted; progress FINALIZING; the result
\* is built, the id leaves the registry, the completion listeners are told.
convertSettledStep(f, ok, listenerCall) ==
  /\ pc[f] = "converting"
  /\ IF ~ok THEN fail(f, EncodeError)
     ELSE IF aborted[f] THEN fail(f, CancelledError)
     ELSE LET told == notify("progress", progressCallbacks, calls)
              st == listenerCallIn(
                      [reg |-> activeConversions, ab |-> aborted,
                       cr |-> cancelRequested], convId[f], listenerCall)
              done == notify("complete", completeCallbacks, told.calls)
          IN  /\ listenerCall \in CallsOf(progressCallbacks)
              /\ progressEvents' = [progressEvents EXCEPT
                   ![f] = Append(@, ProgressInfo(convId[f], "finalizing", 100))]
              /\ IF told.escaped
                 THEN /\ catch(f, st, told.calls)
                      /\ UNCHANGED completeEvents
                 ELSE /\ completeEvents' = [completeEvents EXCEPT ![f] = @ + 1]
                      /\ IF done.escaped
                         THEN catch(f, st, done.calls)
                         ELSE /\ activeConversions' =
                                   [st.reg EXCEPT ![convId[f]] = 0]
                              /\ activeAtNotify' = [activeAtNotify EXCEPT
                                   ![f] = activeConversions'[convId[f]] # 0]
                              /\ aborted' = st.ab
                              /\ cancelRequested' = st.cr
                              /\ calls' = done.calls
                              /\ pc' = [pc EXCEPT ![f] = "completed"]
                              /\ UNCHANGED errorEvents
  /\ UNCHANGED <<isDisposed, files, maxConcurrent, mpc, i, results, convId,
                 canvas, callbackVars>>

convertSettled(f, ok, listenerCall) ==
  /\ convertSettledStep(f, ok, listenerCall)
  /\ UNCHANGED frontVars

\* ------------------------------------------------------------ cancellation
\* ensureNotDisposed(): the Error it throws, <<>> when it returns.
DisposedError == Error(<<"ImageConverter", "has", "been", "disposed">>)
ensureNotDisposed == IF isDisposed THEN <<DisposedError>> ELSE <<>>

\* cancelConversion(id), as far as the converter is concerned.
cancelConversionCall(id) ==
  /\ LET st == IF ensureNotDisposed # <<>>
               THEN [reg |-> activeConversions, ab |-> aborted,
                     cr |-> cancelRequested]
               ELSE cancelConversionIn(
                      [reg |-> activeConversions, ab |-> aborted,
                       cr |-> cancelRequested], id)
     IN  /\ activeConversions' = st.reg
         /\ aborted' = st.ab
         /\ cancelRequested' = st.cr
  /\ UNCHANGED <<isDisposed, files, maxConcurrent, mpc, i, results, pc,
                 convId, canvas, progressEvents, completeEvents, errorEvents,
                 activeAtNotify, callbackVars, calls>>

cancelConversion(id) ==
  /\ ~isDisposed
  /\ cancelConversionCall(id)
  /\ UNCHANGED frontVars

abortAll ==
  /\ aborted' = [f \in FileIds |->
       IF \E id \in IdSpace : activeConversions[id] = f THEN TRUE
       ELSE aborted[f]]
  /\ activeConversions' = [id \in IdSpace |-> 0]

\* cancelAllConversions(), as far as the converter is concerned.
cancelAllConversionsCall ==
  /\ IF ensureNotDisposed # <<>>
     THEN UNCHANGED <<aborted, activeConversions>>
     ELSE abortAll
  /\ UNCHANGED <<isDisposed, files, maxConcurrent, mpc, i, results, pc,
                 convId, canvas, progressEvents, completeEvents, errorEvents,
                 activeAtNotify, cancelRequested, callbackVars, calls>>

cancelAllConversions ==
  /\ ~isDisposed
  /\ cancelAllConversionsCall
  /\ UNCHANGED frontVars

\* Variant of disposeCall: the callback arrays are left as they are.
disposeCallKeepsListeners ==
  /\ IF isDisposed
     THEN UNCHANGED <<aborted, activeConversions, isDisposed>>
     ELSE /\ abortAll
          /\ isDisposed' = TRUE
  /\ UNCHANGED <<callbackVars, files, maxConcurrent, mpc, i, results, pc,
                 convId, canvas, progressEvents, completeEvents, errorEvents,
                 activeAtNotify, cancelRequested, calls>>

\* dispose(), as far as the converter is concerned: a second call returns
\* at once.
disposeCall ==
  /\ IF isDisposed
     THEN UNCHANGED <<aborted, activeConversions, callbackVars, isDisposed>>
     ELSE /\ abortAll
          /\ progressCallbacks' = <<>>
          /\ completeCallbacks' = <<>>
          /\ errorCallbacks' = <<>>
          /\ isDisposed' = TRUE
  /\ UNCHANGED <<files, maxConcurrent, mpc, i, results, pc, convId, canvas,
                 progressEvents, completeEvents, errorEvents, activeAtNotify,
                 cancelRequested, calls>>

dispose ==
  /\ ~isDisposed
  /\ disposeCall
  /\ UNCHANGED frontVars

\* ------------------------------------------------------------ specification
FileLists == {[x \in 1..n |-> x] : n \in 0..MaxFiles}

Next ==
  \/ \E fs \in FileLists, k \in ConcurrencyValues : convertMultiple(fs, k)
  \/ chunkSettled
  \/ \E f \in FileIds, ok \in BOOLEAN, error \in ReadErrors,
        listenerCall \in ListenerCalls :
       readSettled(f, ok, error, listenerCall)
  \/ \E f \in FileIds, listenerCall \in ListenerCalls :
       processSettled(f, listenerCall)
  \/ \E f \in FileIds, ok \in BOOLEAN, listenerCall \in ListenerCalls :
       convertSettled(f, ok, listenerCall)
  \/ \E id \in IdSpace : cancelConversion(id)
  \/ cancelAllConversions
  \/ dispose

Spec == Init /\ [][Next]_vars

\* ------------------------------------- cancelAllConversions from a listener
NextCancelAll ==
  \/ \E fs \in FileLists, k \in ConcurrencyValues : convertMultiple(fs, k)
  \/ chunkSettled
  \/ \E f \in FileIds, ok \in BOOLEAN, error \in ReadErrors,
        listenerCall \in ListenerCalls :
       readSettled(f, ok, error, listenerCall)
  \/ \E f \in FileIds, listenerCall \in ListenerCalls :
       processSettled(f, listenerCall)
  \/ \E f \in FileIds, ok \in BOOLEAN, listenerCall \in ListenerCalls :
       convertSettled(f, ok, listenerCall)
  \/ cancelAllConversions

SpecCancelAll == InitCancelAll /\ [][NextCancelAll]_vars

\* --------------------------------------------------- single convertToWebP calls
\* generateId() as it is: the string of one call may be the string of
\* another, nothing compares them.
generatedIds == IdSpace

\* convertToWebP(file) called on the converter directly, up to its first
\* await; the calls are made for file 1, file 2, ... in this order.
convertToWebPCall(f, id, listenerCall) ==
  /\ f <= MaxDirectCalls
  /\ pc[f] = "none"
  /\ \A g \in 1..(f - 1) : pc[g] # "none"
  /\ IF ensureNotDisposed # <<>>
     THEN /\ pc' = [pc EXCEPT ![f] = "refused"]
          /\ UNCHANGED <<activeConversions, convId, canvas, aborted,
                         cancelRequested, progressEvents, errorEvents,
                         activeAtNotify, calls>>
     ELSE startChunk(<<f>>, [x \in {f} |-> id], [x \in {f} |-> listenerCall])
  /\ UNCHANGED <<isDisposed, files, maxConcurrent, mpc, i, results,
                 completeEvents, callbackVars>>

convertToWebP(f, id, listenerCall) ==
  /\ convertToWebPCall(f, id, listenerCall)
  /\ UNCHANGED frontVars

NextIds ==
  \/ \E f \in FileIds, id \in generatedIds, listenerCall \in ListenerCalls :
       convertToWebP(f, id, listenerCall)
  \/ \E f \in FileIds, ok \in BOOLEAN, error \in ReadErrors,
        listenerCall \in ListenerCalls :
       readSettled(f, ok, error, listenerCall)
  \/ \E f \in FileIds, listenerCall \in ListenerCalls :
       processSettled(f, listenerCall)
  \/ \E f \in FileIds, ok \in BOOLEAN, listenerCall \in ListenerCalls :
       convertSettled(f, ok, listenerCall)
  \/ \E id \in IdSpace : cancelConversion(id)
  \/ cancelAllConversions

SpecIds == Init /\ [][NextIds]_vars

\* ------------------------------------------------- listeners that throw
ListenedFileLists == {fs \in FileLists : Len(fs) <= MaxListenedFiles}

NextListeners ==
  \/ \E fs \in ListenedFileLists, k \in 1..MaxConcurrent :
       convertMultiple(fs, k)
  \/ chunkSettled
  \/ \E f \in FileIds, ok \in BOOLEAN, error \in ReadErrors,
        listenerCall \in ListenerCalls :
       readSettled(f, ok, error, listenerCall)
  \/ \E f \in FileIds, listenerCall \in ListenerCalls :
       processSettled(f, listenerCall)
  \/ \E f \in FileIds, ok \in BOOLEAN, listenerCall \in ListenerCalls :
       convertSettled(f, ok, listenerCall)

SpecListeners == InitListeners /\ [][NextListeners]_vars

\* ---------------------------------------------------- FileHandler.validateFiles
FileTypes == {"image/png", "image/jpeg", "image/jpg", "image/gif"}
FileSizes == {0, 1, WarningThreshold + 1, MAX_FILE_SIZE_MB * MiB,
              MAX_FILE_SIZE_MB * MiB + 1}
FileInfos == [type : FileTypes, size : FileSizes]

\* Variant of validateSingleFile: the check for empty files is missing.
validateSingleFileNoEmptyCheck(fileInfo, index) ==
  LET maxSizeBytes == MAX_FILE_SIZE_MB * 1024 * 1024
      typeError == IF fileInfo.type \notin SUPPORTED_FORMATS
                   THEN <<[rule |-> "format", file |-> index]>> ELSE <<>>
      sizeError == IF fileInfo.size > maxSizeBytes
                   THEN <<[rule |-> "too-large", file |-> index]>> ELSE <<>>
      warnings == IF fileInfo.size > WarningThreshold
                  THEN <<[rule |-> "large", file |-> index]>> ELSE <<>>
      errors == typeError \o sizeError
  IN  [isValid |-> Len(errors) = 0, errors |-> errors, warnings |-> warnings]

\* validateSingleFile: the errors and warnings of the file at `index`, each
\* message held as the rule that pushed it and the file it names.
validateSingleFile(fileInfo, index) ==
  LET maxSizeBytes == MAX_FILE_SIZE_MB * 1024 * 1024
      typeError == IF fileInfo.type \notin SUPPORTED_FORMATS
                   THEN <<[rule |-> "format", file |-> index]>> ELSE <<>>
      sizeError == IF fileInfo.size > maxSizeBytes
                   THEN <<[rule |-> "too-large", file |-> index]>> ELSE <<>>
      emptyError == IF fileInfo.size = 0
                    THEN <<[rule |-> "empty", file |-> index]>> ELSE <<>>
      warnings == IF fileInfo.size > WarningThreshold
                  THEN <<[rule |-> "large", file |-> index]>> ELSE <<>>
      errors == typeError \o sizeError \o emptyError
  IN  [isValid |-> Len(errors) = 0, errors |-> errors, warnings |-> warnings]

RECURSIVE validateEach(_, _, _, _)
RECURSIVE validateEachUntilError(_, _, _, _)
\* Variant of validateEach: the loop stops at the first file with an error.
validateEachUntilError(fs, n, errors, warnings) ==
  IF n > Len(fs) THEN [errors |-> errors, warnings |-> warnings]
  ELSE LET fileValidation == validateSingleFile(fs[n], n)
       IN  IF ~fileValidation.isValid
           THEN [errors |-> errors \o fileValidation.errors,
                 warnings |-> warnings \o fileValidation.warnings]
           ELSE validateEachUntilError(fs, n + 1, errors,
                                       warnings \o fileValidation.warnings)

\* The for loop of validateFiles over the files.
validateEach(fs, n, errors, warnings) ==
  IF n > Len(fs) THEN [errors |-> errors, warnings |-> warnings]
  ELSE LET fileValidation == validateSingleFile(fs[n], n)
       IN  validateEach(fs, n + 1, errors \o fileValidation.errors,
                        warnings \o fileValidation.warnings)

validateFiles(fs) ==
  LET noFiles == IF Len(fs) = 0
                 THEN <<[rule |-> "no-files", file |-> 0]>> ELSE <<>>
      tooMany == IF Len(fs) > MAX_FILES_PER_BATCH
                 THEN <<[rule |-> "too-many", file |-> 0]>> ELSE <<>>
      all == validateEach(fs, 1, noFiles \o tooMany, <<>>)
  IN  [isValid |-> Len(all.errors) = 0, errors |-> all.errors,
       warnings |-> all.warnings]

\* The batch is put together file by file (acceptFiles keeps the order of the
\* selection), then padded with copies of its last file, then validated.
selectFile(fileInfo) ==
  /\ validation = <<>>
  /\ Len(candidate) < MaxDistinctFiles
  /\ candidate' = Append(candidate, fileInfo)
  /\ UNCHANGED <<validation, selectionVars, statsVars, callVars, pipelineVars>>

selectCopy ==
  /\ validation = <<>>
  /\ Len(candidate) >= 1
  /\ Len(candidate) < MaxDistinctFiles + MaxPadding
  /\ candidate' = Append(candidate, candidate[Len(candidate)])
  /\ UNCHANGED <<validation, selectionVars, statsVars, callVars, pipelineVars>>

validate ==
  /\ validation = <<>>
  /\ validation' = <<validateFiles(candidate)>>
  /\ UNCHANGED <<candidate, selectionVars, statsVars, callVars, pipelineVars>>

NextValidation ==
  \/ \E fileInfo \in FileInfos : selectFile(fileInfo)
  \/ selectCopy
  \/ validate

SpecValidation == Init /\ [][NextValidation]_vars

\* --------------------------------------------- FileHandler.processFileSelection
\* The files of a selection as the converter sees them: file x of the list.
FileListOf(fs) == [x \in 1..Len(fs) |-> x]

\* The ConversionError thrown for a batch that is not valid.
selectionErrorOf(v) ==
  [fileName |-> "Multiple files", errorType |-> "unsupported_format",
   message |-> v.errors, details |-> v.warnings]

\* notifyFileSelected with the listener Application subscribes in
\* setupEventSubscriptions: handleFilesSelected runs up to the first await of
\* convertMultiple(files, this.config). One convertMultiple call is followed.
notifyFileSelected(fs, k) ==
  /\ fileSelectedCalls' = fileSelectedCalls + 1
  /\ convertMultipleCall(FileListOf(fs), k)

\* Variant of processFileSelection: the selection is stored before it is
\* validated.
processFileSelectionStoreFirst(fs, k) ==
  /\ selectionCalls < MaxSelections
  /\ selectionCalls' = selectionCalls + 1
  /\ selectedFiles' = fs
  /\ LET v == validateFiles(fs)
     IN  IF ~v.isValid
         THEN /\ selectionError' = <<selectionErrorOf(v)>>
              /\ UNCHANGED <<fileSelectedCalls, pipelineVars>>
         ELSE /\ selectionError' = <<>>
              /\ notifyFileSelected(fs, k)
  /\ UNCHANGED <<validationVars, callVars, statsVars>>

\* processFileSelection(files), called by handleFileInput, whose catch shows
\* the error that is thrown.
processFileSelection(fs, k) ==
  /\ selectionCalls < MaxSelections
  /\ selectionCalls' = selectionCalls + 1
  /\ LET v == validateFiles(fs)
     IN  IF ~v.isValid
         THEN /\ selectionError' = <<selectionErrorOf(v)>>
              /\ UNCHANGED <<selectedFiles, fileSelectedCalls, pipelineVars>>
         ELSE /\ selectionError' = <<>>
              /\ selectedFiles' = fs
              /\ notifyFileSelected(fs, k)
  /\ UNCHANGED <<validationVars, callVars, statsVars>>

\* The files a selection is put together from: a small PNG, a GIF, an empty
\* JPEG.
SelectionFileInfos ==
  {[type |-> "image/png", size |-> 1], [type |-> "image/gif", size |-> 1],
   [type |-> "image/jpeg", size |-> 0]}

NextSelection ==
  \/ \E fileInfo \in SelectionFileInfos : selectFile(fileInfo)
  \/ selectCopy
  \/ \E k \in 1..MaxConcurrent : processFileSelection(candidate, k)

SpecSelection == Init /\ [][NextSelection]_vars

\* ------------------------------------------------- results and statistics
OriginalSizes == {0, 8, 10, 256}
ConvertedSizes == {5, 7, 257}
ProcessingTimes == {1, 4}

\* Variant of calculateCompressionRatio: the percentage is cut, not rounded.
calculateCompressionRatioCut(originalSize, convertedSize) ==
  IF originalSize = 0 THEN 0
  ELSE LET n == (originalSize - convertedSize) * 100
       IN  IF n < 0 THEN -((-n) \div originalSize) ELSE n \div originalSize

calculateCompressionRatio(originalSize, convertedSize) ==
  IF originalSize = 0 THEN 0
  ELSE MathRound((originalSize - convertedSize) * 100, originalSize)

\* The ConversionResult built at the end of convertToWebP.
resultOf(originalSize, blobSize, processingTime) ==
  [originalSize |-> originalSize, convertedSize |-> blobSize,
   compressionRatio |-> calculateCompressionRatio(originalSize, blobSize),
   processingTime |-> processingTime]

\* Variant of updateStats: each average is the mean of the old average and
\* the new value.
updateStatsHalving(st, result) ==
  [st EXCEPT
     !.totalFilesProcessed = @ + 1,
     !.successfulConversions = @ + 1,
     !.totalSizeReduced = @ + (result.originalSize - result.convertedSize),
     !.averageCompressionRatio = Over(Plus(@, result.compressionRatio), 2),
     !.averageProcessingTime = Over(Plus(@, result.processingTime), 2)]

updateStats(st, result) ==
  LET n == st.successfulConversions + 1
  IN  [st EXCEPT
         !.totalFilesProcessed = @ + 1,
         !.successfulConversions = n,
         !.totalSizeReduced = @ + (result.originalSize - result.convertedSize),
         !.averageCompressionRatio =
            Over(Plus(Times(@, n - 1), result.compressionRatio), n),
         !.averageProcessingTime =
            Over(Plus(Times(@, n - 1), result.processingTime), n)]

\* A conversion ends well: the result is built and notifyConversionComplete
\* calls the listener of Application, handleConversionComplete.
handleConversionComplete(originalSize, blobSize, processingTime) ==
  /\ stats.successfulConversions < MaxResults
  /\ LET result == resultOf(originalSize, blobSize, processingTime)
     IN  /\ lastResult' = <<result>>
         /\ recorded' = Append(recorded, result)
         /\ stats' = updateStats(stats, result)
  /\ lastOp' = "handleConversionComplete"
  /\ UNCHANGED <<snapshot, pipelineVars, validationVars, callVars, selectionVars>>

\* Variant of handleConversionError: a failed file counts as processed.
handleConversionErrorCounted ==
  /\ stats.failedConversions < MaxErrorEvents
  /\ stats' = [stats EXCEPT !.failedConversions = @ + 1,
                            !.totalFilesProcessed = @ + 1]
  /\ lastOp' = "handleConversionError"
  /\ UNCHANGED <<recorded, lastResult, snapshot, pipelineVars,
                 validationVars, callVars, selectionVars>>

\* A conversion fails: notifyConversionError calls handleConversionError.
handleConversionError ==
  /\ stats.failedConversions < MaxErrorEvents
  /\ stats' = [stats EXCEPT !.failedConversions = @ + 1]
  /\ lastOp' = "handleConversionError"
  /\ UNCHANGED <<recorded, lastResult, snapshot, pipelineVars,
                 validationVars, callVars, selectionVars>>

\* Application.reset(): cancelAllConversions, clearSelectedFiles, new stats.
reset ==
  /\ ~isDisposed
  /\ abortAll
  /\ selectedFiles' = <<>>
  /\ stats' = initializeStats
  /\ recorded' = <<>>
  /\ lastOp' = "reset"
  /\ UNCHANGED <<isDisposed, files, maxConcurrent, mpc, i, results, pc,
                 convId, canvas, progressEvents, completeEvents, errorEvents,
                 activeAtNotify,
                 cancelRequested, callbackVars, calls, validationVars, callVars,
                 fileSelectedCalls, selectionError, selectionCalls,
                 lastResult, snapshot>>

\* ------------------------------------------- Application and the converter
\* setupEventSubscriptions: Application subscribes one listener to each event
\* of the converter; they are the first of each list.
ApplicationListener == 1
InitApplication ==
  /\ InitState
  /\ progressCallbacks = <<PlainListeners[ApplicationListener]>>
  /\ completeCallbacks = <<PlainListeners[ApplicationListener]>>
  /\ errorCallbacks = <<PlainListeners[ApplicationListener]>>

\* A stage of convertToWebP settles while Application listens: the error
\* listener is handleConversionError, the completion listener is
\* handleConversionComplete with the result of the conversion; the progress
\* listener changes the page only.
applicationListens(stage, result) ==
  /\ stage
  /\ IF calls'["error"][ApplicationListener]
          # calls["error"][ApplicationListener]
     THEN /\ stats' = [stats EXCEPT !.failedConversions = @ + 1]
          /\ lastOp' = "handleConversionError"
          /\ UNCHANGED <<recorded, lastResult>>
     ELSE IF calls'["complete"][ApplicationListener]
               # calls["complete"][ApplicationListener]
     THEN /\ lastResult' = <<result>>
          /\ recorded' = Append(recorded, result)
          /\ stats' = updateStats(stats, result)
          /\ lastOp' = "handleConversionComplete"
     ELSE UNCHANGED <<stats, recorded, lastResult, lastOp>>
  /\ UNCHANGED <<snapshot, validationVars, selectionVars, callVars>>

\* A batch is converted while Application listens and may be reset.
NextReset ==
  \/ \E fs \in ListenedFileLists, k \in 1..MaxConcurrent :
       convertMultiple(fs, k)
  \/ chunkSettled
  \/ \E f \in FileIds, ok \in BOOLEAN, error \in ReadErrors,
        originalSize \in OriginalSizes, blobSize \in ConvertedSizes,
        processingTime \in ProcessingTimes :
       LET result == resultOf(originalSize, blobSize, processingTime)
       IN  \/ applicationListens(readSettledStep(f, ok, error, "nothing"),
                                 result)
           \/ applicationListens(processSettledStep(f, "nothing"), result)
           \/ applicationListens(convertSettledStep(f, ok, "nothing"), result)
  \/ reset

SpecReset == InitApplication /\ [][NextReset]_vars

NextStats ==
  \/ \E originalSize \in OriginalSizes, blobSize \in ConvertedSizes,
        processingTime \in ProcessingTimes :
       handleConversionComplete(originalSize, blobSize, processingTime)
  \/ handleConversionError
  \/ reset

SpecStats == Init /\ [][NextStats]_vars

\* ------------------------------------------------------ Application.getStats
WrittenValues == {99}
StatsFields == {"totalFilesProcessed", "totalSizeReduced",
                "averageCompressionRatio", "averageProcessingTime",
                "successfulConversions", "failedConversions"}

\* Variant of getStats: the stats object itself is returned.
getStatsShared ==
  /\ snapshot' = <<[shared |-> TRUE, fields |-> stats]>>
  /\ lastOp' = "getStats"
  /\ UNCHANGED <<stats, recorded, lastResult, pipelineVars, validationVars, callVars,
                 selectionVars>>

\* getStats(): a new object with the fields of this.stats.
getStats ==
  /\ snapshot' = <<[shared |-> FALSE, fields |-> stats]>>
  /\ lastOp' = "getStats"
  /\ UNCHANGED <<stats, recorded, lastResult, pipelineVars, validationVars, callVars,
                 selectionVars>>

\* The caller assigns to a field of the object getStats returned; the write
\* reaches this.stats when the two are one object.
mutateSnapshot(field, value) ==
  /\ snapshot # <<>>
  /\ LET written == IF field \in {"averageCompressionRatio",
                                  "averageProcessingTime"}
                    THEN Quotient(value, 1) ELSE value
     IN  /\ snapshot' = <<[snapshot[1] EXCEPT !.fields[field] = written]>>
         /\ stats' = IF snapshot[1].shared
                     THEN [stats EXCEPT ![field] = written] ELSE stats
  /\ lastOp' = "mutateSnapshot"
  /\ UNCHANGED <<recorded, lastResult, pipelineVars, validationVars, callVars,
                 selectionVars>>

SnapshotOriginalSizes == {10}
SnapshotConvertedSizes == {5, 7}
SnapshotProcessingTimes == {4}

NextSnapshot ==
  \/ \E originalSize \in SnapshotOriginalSizes,
        blobSize \in SnapshotConvertedSizes,
        processingTime \in SnapshotProcessingTimes :
       handleConversionComplete(originalSize, blobSize, processingTime)
  \/ handleConversionError
  \/ reset
  \/ getStats
  \/ \E field \in StatsFields, value \in WrittenValues :
       mutateSnapshot(field, value)

SpecSnapshot == Init /\ [][NextSnapshot]_vars

\* ------------------------------------------------ stages that all settle
\* The awaited stage of conversion f settles, well or not.
stageSettled(f) ==
  \/ \E ok \in BOOLEAN, error \in ReadErrors, listenerCall \in ListenerCalls :
       readSettled(f, ok, error, listenerCall)
  \/ \E listenerCall \in ListenerCalls : processSettled(f, listenerCall)
  \/ \E ok \in BOOLEAN, listenerCall \in ListenerCalls :
       convertSettled(f, ok, listenerCall)

NextSettling ==
  \/ \E fs \in ListenedFileLists, k \in ConcurrencyValues :
       convertMultiple(fs, k)
  \/ chunkSettled
  \/ \E f \in FileIds : stageSettled(f)

\* Every stage that is awaited settles, and the continuation of a settled
\* chunk runs.
SpecSettling ==
  /\ Init
  /\ [][NextSettling]_vars
  /\ WF_vars(chunkSettled)
  /\ \A f \in FileIds : WF_vars(stageSettled(f))

\* ------------------------------------------- calls on a disposed converter
\* The call of a public method is recorded with what it threw (for the
\* asynchronous methods: what their promise was rejected with at once).
called(method, threw) ==
  /\ lastCall' = <<[method |-> method, threw |-> threw]>>
  /\ UNCHANGED <<secondCall, validationVars, selectionVars, statsVars>>

\* The listener a further onConversion... call pushes on the array cbs.
NewListeners(cbs) ==
  IF Len(cbs) < MaxListeners
  THEN {[id |-> Len(cbs) + 1, behaviour |-> "returns", mayCall |-> {}]}
  ELSE {}

onConversionProgressCall(callback) ==
  /\ progressCallbacks' = IF ensureNotDisposed # <<>> THEN progressCallbacks
                          ELSE Append(progressCallbacks, callback)
  /\ UNCHANGED <<completeCallbacks, errorCallbacks, converterVars>>

onConversionCompleteCall(callback) ==
  /\ completeCallbacks' = IF ensureNotDisposed # <<>> THEN completeCallbacks
                          ELSE Append(completeCallbacks, callback)
  /\ UNCHANGED <<progressCallbacks, errorCallbacks, converterVars>>

onConversionErrorCall(callback) ==
  /\ errorCallbacks' = IF ensureNotDisposed # <<>> THEN errorCallbacks
                       ELSE Append(errorCallbacks, callback)
  /\ UNCHANGED <<progressCallbacks, completeCallbacks, converterVars>>

\* Every public method is called, before and after dispose(); a file is
\* handed to the converter once.
NextDisposed ==
  \/ \E fs \in ListenedFileLists, k \in 1..MaxConcurrent :
       /\ \A f \in Range(fs) : pc[f] = "none"
       /\ convertMultipleCall(fs, k)
       /\ called("convertMultiple", ensureNotDisposed)
  \/ \E f \in FileIds, listenerCall \in ListenerCalls :
       /\ convertToWebPCall(f, f, listenerCall)
       /\ called("convertToWebP", ensureNotDisposed)
  \/ \E id \in IdSpace :
       /\ cancelConversionCall(id)
       /\ called("cancelConversion", ensureNotDisposed)
  \/ /\ cancelAllConversionsCall
     /\ called("cancelAllConversions", ensureNotDisposed)
  \/ /\ disposeCall
     /\ called("dispose", <<>>)
  \/ \E callback \in NewListeners(progressCallbacks) :
       /\ onConversionProgressCall(callback)
       /\ called("onConversionProgress", ensureNotDisposed)
  \/ \E callback \in NewListeners(completeCallbacks) :
       /\ onConversionCompleteCall(callback)
       /\ called("onConversionComplete", ensureNotDisposed)
  \/ \E callback \in NewListeners(errorCallbacks) :
       /\ onConversionErrorCall(callback)
       /\ called("onConversionError", ensureNotDisposed)
  \/ chunkSettled
  \/ \E f \in FileIds, ok \in BOOLEAN, error \in ReadErrors,
        listenerCall \in ListenerCalls :
       readSettled(f, ok, error, listenerCall)
  \/ \E f \in FileIds, listenerCall \in ListenerCalls :
       processSettled(f, listenerCall)
  \/ \E f \in FileIds, ok \in BOOLEAN, listenerCall \in ListenerCalls :
       convertSettled(f, ok, listenerCall)

SpecDisposed == InitSubscribed /\ [][NextDisposed]_vars

\* ------------------------------------------------ createConversionError
\* What the catch block of convertToWebP may be handed: the Errors of the
\* stages, Errors of the browser that speak of a size, and a thrown string.
ThrownValues ==
  ReadErrors \cup
  {CancelledError, EncodeError,
   Error(<<"FileReader", "error">>),
   Error(<<"Failed", "to", "read", "file">>),
   Error(<<"Canvas", "exceeds", "max", "size">>),
   Error(<<"Image", "too", "large">>),
   ThrownString(<<"out", "of", "memory">>)}

\* createConversionError(conversionId, file.name, error) as the catch block
\* calls it.
classify(id, f, error) ==
  /\ lastCall' = <<[method |-> "createConversionError", argument |-> error,
                    returned |-> createConversionError(id, f, error)]>>
  /\ UNCHANGED <<secondCall, pipelineVars, validationVars, selectionVars,
                 statsVars>>

NextErrors ==
  \E id \in IdSpace, f \in FileIds, error \in ThrownValues :
    classify(id, f, error)

SpecErrors == Init /\ [][NextErrors]_vars

\* -------------------------------------------------- a second file selection
\* The files of a second selection, as the converter sees them: they come
\* after the files of the first.
SecondFileLists ==
  {fs \in UNION {{[x \in 1..n |-> m + x] : n \in 1..MaxFiles} :
                   m \in 1..MaxFiles} :
     fs[Len(fs)] <= MaxFiles}

\* One pass of the for statement of the second convertMultiple call.
secondLoopFrom(fs, k, idx, res) ==
  /\ secondCall' = [files |-> fs, maxConcurrent |-> k, i |-> idx,
                    results |-> res,
                    mpc |-> IF idx < Len(fs) THEN "awaiting" ELSE "returned"]
  /\ IF idx < Len(fs)
     THEN LET batch == Slice(fs, idx, idx + k)
          IN  \E ids \in generateId(batch) :
                startChunk(batch, ids, [f \in Range(batch) |-> "nothing"])
     ELSE UNCHANGED <<activeConversions, convId, canvas, aborted,
                      cancelRequested, pc, progressEvents, errorEvents,
                      activeAtNotify, calls>>

\* A second selection is made while the first batch is converted:
\* processFileSelection notifies handleFilesSelected, which calls
\* convertMultiple(files, this.config) on the same converter with the same
\* config; no step of the three looks at the conversions under way.
handleFilesSelectedAgain(fs) ==
  /\ ~isDisposed
  /\ mpc = "awaiting"
  /\ secondCall.mpc = "idle"
  /\ fs[1] = Len(files) + 1
  /\ secondLoopFrom(fs, maxConcurrent, 0, <<>>)
  /\ UNCHANGED <<isDisposed, files, maxConcurrent, mpc, i, results,
                 completeEvents, callbackVars, lastCall, validationVars,
                 selectionVars, statsVars>>

\* The continuation of the await of the second call.
secondChunkSettled ==
  /\ secondCall.mpc = "awaiting"
  /\ LET c == secondCall
         batch == Slice(c.files, c.i, c.i + c.maxConcurrent)
     IN  \/ /\ \E f \in Range(batch) : Rejected(f)
            /\ secondLoopFrom(c.files, c.maxConcurrent,
                              c.i + c.maxConcurrent, c.results)
         \/ /\ \A f \in Range(batch) : Fulfilled(f)
            /\ secondLoopFrom(c.files, c.maxConcurrent,
                              c.i + c.maxConcurrent, c.results \o batch)
  /\ UNCHANGED <<isDisposed, files, maxConcurrent, mpc, i, results,
                 completeEvents, callbackVars, lastCall, validationVars,
                 selectionVars, statsVars>>

NextBatches ==
  \/ \E fs \in ListenedFileLists, k \in 1..MaxConcurrent :
       convertMultiple(fs, k)
  \/ \E fs \in SecondFileLists : handleFilesSelectedAgain(fs)
  \/ chunkSettled
  \/ secondChunkSettled
  \/ \E f \in FileIds, ok \in BOOLEAN, error \in ReadErrors :
       readSettled(f, ok, error, "nothing")
  \/ \E f \in FileIds : processSettled(f, "nothing")
  \/ \E f \in FileIds, ok \in BOOLEAN : convertSettled(f, ok, "nothing")

SpecBatches == InitApplication /\ [][NextBatches]_vars

\* --------------------------------------- listeners that unsubscribe
\* The callbacks subscribed to the three events.
Callbacks ==
  [progress |-> progressCallbacks, complete |-> completeCallbacks,
   error |-> errorCallbacks]

\* Two callbacks: the first calls the unsubscribe of its own subscription
\* when it is called, the second returns.
Unsubscribing == [id |-> 1, behaviour |-> "unsubscribes", mayCall |-> {}]
Returning == [id |-> 2, behaviour |-> "returns", mayCall |-> {}]
Subscribers == {Unsubscribing, Returning}

\* Array.prototype.indexOf (1-based, 0: not found).
RECURSIVE indexOfFrom(_, _, _)
indexOfFrom(cbs, callback, n) ==
  IF n > Len(cbs) THEN 0
  ELSE IF cbs[n] = callback THEN n
  ELSE indexOfFrom(cbs, callback, n + 1)
indexOf(cbs, callback) == indexOfFrom(cbs, callback, 1)

\* The unsubscribe of the handle an onConversion... call returned for
\* callback: indexOf, and splice(index, 1) if the callback is found.
unsubscribe(cbs, callback) ==
  LET index == indexOf(cbs, callback)
  IN  IF index > 0
      THEN SubSeq(cbs, 1, index - 1) \o SubSeq(cbs, index + 1, Len(cbs))
      ELSE cbs

\* Array.prototype.forEach on an array its callbacks may change: the indices
\* from n up to the length len the array had when forEach was called are
\* visited in order, an index the array no longer has is passed over, and
\* the element found at an index when it is visited is the one called.
RECURSIVE forEachLive(_, _, _, _)
forEachLive(cbs, n, len, counts) ==
  IF n > len THEN [callbacks |-> cbs, counts |-> counts]
  ELSE IF n > Len(cbs) THEN forEachLive(cbs, n + 1, len, counts)
  ELSE LET callback == cbs[n]
           after == IF callback.behaviour = "unsubscribes"
                    THEN unsubscribe(cbs, callback)
                    ELSE cbs
       IN  forEachLive(after, n + 1, len,
                       [counts EXCEPT ![callback.id] = @ + 1])

\* reportProgress, notifyConversionComplete or notifyConversionError is
\* called by a stage of a conversion, which is not followed here.
emit(event) ==
  LET d == forEachLive(Callbacks[event], 1, Len(Callbacks[event]),
                       calls[event])
  IN  /\ \A l \in ListenerIds : calls[event][l] < MaxEmitted
      /\ calls' = [calls EXCEPT ![event] = d.counts]
      /\ progressCallbacks' =
           IF event = "progress" THEN d.callbacks ELSE progressCallbacks
      /\ completeCallbacks' =
           IF event = "complete" THEN d.callbacks ELSE completeCallbacks
      /\ errorCallbacks' =
           IF event = "error" THEN d.callbacks ELSE errorCallbacks
      /\ UNCHANGED <<isDisposed, activeConversions, files, maxConcurrent,
                     mpc, i, results, pc, convId, canvas, aborted,
                     cancelRequested, progressEvents, completeEvents,
                     errorEvents, activeAtNotify, frontVars>>

\* onConversionProgress, onConversionComplete or onConversionError is called
\* with a callback that is not subscribed to the event.
subscribe(event, callback) ==
  /\ callback \notin Range(Callbacks[event])
  /\ IF event = "progress" THEN onConversionProgressCall(callback)
     ELSE IF event = "complete" THEN onConversionCompleteCall(callback)
     ELSE onConversionErrorCall(callback)
  /\ UNCHANGED frontVars

\* The holder of a subscription calls its unsubscribe between two events.
unsubscribed(event, callback) ==
  /\ callback \in Range(Callbacks[event])
  /\ progressCallbacks' =
       IF event = "progress" THEN unsubscribe(progressCallbacks, callback)
       ELSE progressCallbacks
  /\ completeCallbacks' =
       IF event = "complete" THEN unsubscribe(completeCallbacks, callback)
       ELSE completeCallbacks
  /\ errorCallbacks' =
       IF event = "error" THEN unsubscribe(errorCallbacks, callback)
       ELSE errorCallbacks
  /\ UNCHANGED <<converterVars, frontVars>>

NextSubscriptions ==
  \/ \E event \in Events, callback \in Subscribers :
       subscribe(event, callback)
  \/ \E event \in Events, callback \in Subscribers :
       unsubscribed(event, callback)
  \/ \E event \in Events : emit(event)

InitUnsubscribed ==
  /\ InitState
  /\ progressCallbacks = <<>>
  /\ completeCallbacks = <<>>
  /\ errorCallbacks = <<>>

SpecSubscriptions == InitUnsubscribed /\ [][NextSubscriptions]_vars

\* ================================================================== claims
Files == 1..Len(files)
Settled(f) == pc[f] \in {"completed", "failed"}
Started(f) == progressEvents[f] # <<>>
Stages(f) == [x \in 1..Len(progressEvents[f]) |-> progressEvents[f][x].stage]
InFlightCount == Cardinality({f \in FileIds : InFlight(f)})
\* The chunk of file f when the list is cut into chunks of k >= 1 files.
ChunkOf(f, k) == (f - 1) \div k
Count(s, v) == Cardinality({x \in 1..Len(s) : s[x] = v})

\* C1: when convertMultiple has returned, the returned list holds exactly the
\* files whose conversion completed successfully, also when another file of
\* the same chunk failed.
C1_ReturnsEverySuccess ==
  mpc = "returned" =>
    Range(results) = {f \in Files : pc[f] = "completed"}

\* C2: with maxConcurrentConversions = k >= 1, never more than k conversions
\* of the call are in flight (started and not yet settled).
C2_AtMostKInFlight ==
  (mpc # "idle" /\ maxConcurrent >= 1) => InFlightCount <= maxConcurrent

\* C3: no conversion of a chunk is started before every conversion of the
\* chunks before it has reached a terminal outcome.
C3_ChunkBarrier ==
  (mpc # "idle" /\ maxConcurrent >= 1) =>
    \A f, g \in Files :
      (ChunkOf(g, maxConcurrent) < ChunkOf(f, maxConcurrent) /\ Started(f))
        => Settled(g)

\* C4: a conversion never has both a completion and an error event, a settled
\* conversion has exactly one of the two, and one still in flight has none.
C4_ExactlyOneOutcome ==
  \A f \in FileIds :
    /\ completeEvents[f] + Len(errorEvents[f]) <= 1
    /\ Settled(f) => completeEvents[f] + Len(errorEvents[f]) = 1
    /\ pc[f] = "completed" => completeEvents[f] = 1
    /\ pc[f] = "failed" => Len(errorEvents[f]) = 1

\* C4, the case: one conversion has completed and another has failed, none
\* of them cancelled.
C4_Witness ==
  \E f, g \in FileIds :
    /\ pc[f] = "completed" /\ pc[g] = "failed"
    /\ ~aborted[f] /\ ~aborted[g]

\* C5: a conversion whose id was passed to cancelConversion while it was in
\* flight never has a completion event, and once settled it has one error
\* event of type processing_error with the cancelled message.
C5_CancelledEndsInCancelError ==
  \A f \in FileIds :
    cancelRequested[f] =>
      /\ completeEvents[f] = 0
      /\ Settled(f) =>
           /\ Len(errorEvents[f]) = 1
           /\ errorEvents[f][1].errorType = "processing_error"
           /\ errorEvents[f][1].message = CancelledMessage

\* C6: when one conversion of a chunk was cancelled, every other conversion
\* of that chunk that ran all its stages has its completion event and its
\* result in the list convertMultiple returns.
C6_SiblingsUnaffected ==
  (mpc = "returned" /\ maxConcurrent >= 1) =>
    \A f, g \in Files :
      ( /\ f # g
        /\ ChunkOf(f, maxConcurrent) = ChunkOf(g, maxConcurrent)
        /\ cancelRequested[g]
        /\ ~aborted[f]
        /\ Stages(f) =
             <<"reading", "processing", "converting", "finalizing">> )
      => (completeEvents[f] = 1 /\ f \in Range(results))

\* C7: no file is started twice, and when convertMultiple has returned every
\* file of the list was started exactly once (one READING progress event),
\* or was refused by a converter disposed in the meantime.
C7_EveryFileStartedOnce ==
  /\ \A f \in FileIds : Count(Stages(f), "reading") <= 1
  /\ mpc = "returned" =>
       \A f \in Files :
         \/ Count(Stages(f), "reading") = 1
         \/ (pc[f] = "refused" /\ isDisposed)

\* C7, the case: the call has returned over three or more files although a
\* conversion of the first chunk failed, and no file was refused.
C7_Witness ==
  /\ mpc = "returned" /\ Len(files) >= 3 /\ maxConcurrent = 2
  /\ pc[1] = "failed"
  /\ \A f \in Files : Started(f)

\* C8: convertMultiple is rejected only by the disposed guard at its entry,
\* before any work; and every failed conversion has exactly one error event.
C8_NeverRejects ==
  /\ mpc = "rejected" =>
       (isDisposed /\ \A f \in FileIds : pc[f] = "none")
  /\ \A f \in FileIds :
       /\ Len(errorEvents[f]) <= 1
       /\ pc[f] = "failed" => Len(errorEvents[f]) = 1

\* C8, the case: the call has returned on a live converter although one of
\* its conversions failed by itself and another was cancelled.
C8_Witness ==
  /\ mpc = "returned" /\ ~isDisposed
  /\ \E f, g \in Files :
       /\ pc[f] = "failed" /\ ~aborted[f]
       /\ pc[g] = "failed" /\ cancelRequested[g]

\* ------------------------------------------------- claims on validateFiles
Validated == validation # <<>>
Verdict == validation[1]
\* The entries of the error list about the file at index j.
EntriesFor(j) == Cardinality({x \in 1..Len(Verdict.errors) :
                               Verdict.errors[x].file = j})
AllowedType(fileInfo) ==
  fileInfo.type \in {"image/png", "image/jpeg", "image/jpg"}
Oversized(fileInfo) == fileInfo.size > 10485760
Empty(fileInfo) == fileInfo.size = 0
Violating(fileInfo) ==
  ~AllowedType(fileInfo) \/ Oversized(fileInfo) \/ Empty(fileInfo)

\* C9: validateFiles answers isValid = TRUE exactly when the batch has 1 to
\* 20 files, each of an allowed type and of a size in 1..10 MiB; isValid is
\* TRUE exactly when the error list is empty, whatever the warnings.
C9_ValidExactlyWhenWithinPolicy ==
  Validated =>
    /\ Verdict.isValid <=> (Verdict.errors = <<>>)
    /\ Verdict.isValid <=>
         /\ Len(candidate) >= 1
         /\ Len(candidate) <= 20
         /\ \A j \in 1..Len(candidate) : ~Violating(candidate[j])

\* C9, the case: a batch of 20 files is valid although a file of it is
\* large enough for a warning.
C9_Witness ==
  /\ Validated
  /\ Len(candidate) = 20
  /\ Verdict.isValid
  /\ Verdict.warnings # <<>>

\* C10 as claimed: a batch with a violating file is invalid and its error
\* list has exactly one entry for every violating file.
C10_OneEntryPerViolatingFile ==
  (Validated /\ \E j \in 1..Len(candidate) : Violating(candidate[j])) =>
    /\ ~Verdict.isValid
    /\ \A j \in 1..Len(candidate) :
         Violating(candidate[j]) => EntriesFor(j) = 1

\* C10 as amended: a batch with a violating file is invalid, and the error
\* list has, for every file of the batch, one entry per rule the file
\* breaks (wrong format, oversized, empty): none for a file within policy,
\* one or two for a violating file, whatever files come before it.
C10_OneEntryPerViolation ==
  (Validated /\ \E j \in 1..Len(candidate) : Violating(candidate[j])) =>
    /\ ~Verdict.isValid
    /\ \A j \in 1..Len(candidate) :
         /\ EntriesFor(j) = (IF AllowedType(candidate[j]) THEN 0 ELSE 1)
                          + (IF Oversized(candidate[j]) THEN 1 ELSE 0)
                          + (IF Empty(candidate[j]) THEN 1 ELSE 0)
         /\ Violating(candidate[j]) => EntriesFor(j) \in {1, 2}

\* C10, the case: two violating files, the second one breaking two rules,
\* in a batch that is also too long.
C10_Witness ==
  /\ Validated
  /\ Len(candidate) > 20
  /\ Violating(candidate[1]) /\ EntriesFor(1) = 1
  /\ Violating(candidate[2]) /\ EntriesFor(2) = 2

\* -------------------------------------------------------------------- C11
\* C11: a call of processFileSelection with a batch that validateFiles finds
\* not valid throws an error, leaves selectedFiles as it was, calls no
\* files-selected listener and starts no conversion: the convertMultiple call,
\* the position of every conversion and the progress events are as before.
C11_InvalidBatchRejectedWhole ==
  [][(selectionCalls' = selectionCalls + 1
      /\ ~validateFiles(candidate).isValid)
     => /\ selectionError' # <<>>
        /\ selectedFiles' = selectedFiles
        /\ fileSelectedCalls' = fileSelectedCalls
        /\ mpc' = mpc /\ pc' = pc /\ convId' = convId
        /\ progressEvents' = progressEvents]_vars

\* An earlier selection of twenty files is being converted when a selection
\* of more than twenty files is refused.
C11_Witness ==
  /\ selectionError # <<>>
  /\ selectionCalls = 2
  /\ Len(candidate) > MAX_FILES_PER_BATCH
  /\ Len(selectedFiles) = MAX_FILES_PER_BATCH
  /\ fileSelectedCalls = 1
  /\ mpc = "awaiting"

\* -------------------------------------------------------------------- C12
\* r is the integer nearest to 100 * (o - c) / o, a half going up.
NearestPercent(r, o, c) ==
  /\ 2 * o * r - o <= 200 * (o - c)
  /\ 200 * (o - c) < 2 * o * r + o

\* C12 as stated: the compressionRatio of every result is the rounded
\* percentage of its sizes, 0 for an original of size 0, and negative
\* whenever the output is larger than a non-empty input.
C12_RoundedAndNegativeWhenLarger ==
  \A x \in 1..Len(lastResult) :
    LET r == lastResult[x].compressionRatio
        o == lastResult[x].originalSize
        c == lastResult[x].convertedSize
    IN  /\ IF o = 0 THEN r = 0 ELSE NearestPercent(r, o, c)
        /\ (o > 0 /\ c > o) => r < 0

\* C12, amended: the compressionRatio of every result is the rounded
\* percentage of its sizes and 0 for an original of size 0; when the output
\* is larger than a non-empty input it is never positive, and it is negative
\* exactly when the growth is more than half a percent of the input.
C12_RoundedPercentage ==
  \A x \in 1..Len(lastResult) :
    LET r == lastResult[x].compressionRatio
        o == lastResult[x].originalSize
        c == lastResult[x].convertedSize
    IN  /\ IF o = 0 THEN r = 0 ELSE NearestPercent(r, o, c)
        /\ (o > 0 /\ c > o) => (r <= 0 /\ (r < 0 <=> 200 * (c - o) > o))

\* A result whose output is one byte larger than its input of 256 bytes.
C12_Witness ==
  /\ lastResult # <<>>
  /\ lastResult[1].originalSize = 256
  /\ lastResult[1].convertedSize = 257
  /\ lastResult[1].compressionRatio = 0

\* -------------------------------------------------------------------- C15
RECURSIVE SumOfRatios(_)
SumOfRatios(rs) ==
  IF rs = <<>> THEN 0 ELSE rs[1].compressionRatio + SumOfRatios(Tail(rs))
RECURSIVE SumOfTimes(_)
SumOfTimes(rs) ==
  IF rs = <<>> THEN 0 ELSE rs[1].processingTime + SumOfTimes(Tail(rs))
Mean(total, n) == IF n = 0 THEN <<0, 1>> ELSE Quotient(total, n)

\* C15: after any sequence of completion events since the last reset,
\* successfulConversions is the number of results recorded and the two
\* averages are the arithmetic means of their compressionRatio and of their
\* processingTime.
C15_AveragesAreMeans ==
  /\ stats.successfulConversions = Len(recorded)
  /\ stats.averageCompressionRatio = Mean(SumOfRatios(recorded), Len(recorded))
  /\ stats.averageProcessingTime = Mean(SumOfTimes(recorded), Len(recorded))

\* Ratios 50 and 30 give the average 40.
C15_Witness ==
  /\ lastOp = "handleConversionComplete"
  /\ Len(recorded) = 2
  /\ recorded[1].compressionRatio = 50
  /\ recorded[2].compressionRatio = 30
  /\ stats.averageCompressionRatio = <<40, 1>>
  /\ stats.averageProcessingTime = <<5, 2>>

\* -------------------------------------------------------------------- C16
\* C16: an error event adds exactly 1 to failedConversions and changes no
\* other statistic.
C16_ErrorOnlyCountsFailure ==
  [][lastOp' = "handleConversionError"
     => /\ stats'.failedConversions = stats.failedConversions + 1
        /\ stats'.totalFilesProcessed = stats.totalFilesProcessed
        /\ stats'.successfulConversions = stats.successfulConversions
        /\ stats'.totalSizeReduced = stats.totalSizeReduced
        /\ stats'.averageCompressionRatio = stats.averageCompressionRatio
        /\ stats'.averageProcessingTime = stats.averageProcessingTime]_vars

\* A failure after two results with ratios 50 and 30: the average is still 40.
C16_Witness ==
  /\ lastOp = "handleConversionError"
  /\ stats.failedConversions = 1
  /\ stats.successfulConversions = 2
  /\ stats.totalFilesProcessed = 2
  /\ stats.averageCompressionRatio = <<40, 1>>

\* -------------------------------------------------------------------- C17
\* C17: reset leaves every statistic at zero, and a write to the object that
\* getStats returned leaves the statistics of the application as they were.
C17_ResetZeroesAndSnapshotIsCopy ==
  [][/\ lastOp' = "reset"
        => /\ stats'.totalFilesProcessed = 0
           /\ stats'.totalSizeReduced = 0
           /\ stats'.averageCompressionRatio = <<0, 1>>
           /\ stats'.averageProcessingTime = <<0, 1>>
           /\ stats'.successfulConversions = 0
           /\ stats'.failedConversions = 0
     /\ lastOp' = "mutateSnapshot" => stats' = stats]_vars

\* Results and a failure were counted, reset ran, and the snapshot taken
\* afterwards was overwritten: the statistics are still all zero.
C17_Witness ==
  /\ lastOp = "mutateSnapshot"
  /\ lastResult # <<>>
  /\ recorded = <<>>
  /\ snapshot[1].fields.failedConversions = 99
  /\ stats.failedConversions = 0
  /\ stats.successfulConversions = 0

\* -------------------------------------------------------------------- C13
StageOrder == <<[stage |-> "reading", progress |-> 0],
                [stage |-> "processing", progress |-> 25],
                [stage |-> "converting", progress |-> 50],
                [stage |-> "finalizing", progress |-> 100]>>

\* C13: the progress events of one conversion are, in this order and each at
\* most once, Reading with 0, Processing with 25, Converting with 50 and
\* Finalizing with 100, all with the id of the conversion; a conversion with
\* a completion event has had all four.
C13_ProgressInStageOrder ==
  \A f \in FileIds :
    /\ Len(progressEvents[f]) <= Len(StageOrder)
    /\ \A x \in 1..Len(progressEvents[f]) :
         /\ progressEvents[f][x].id = convId[f]
         /\ progressEvents[f][x].stage = StageOrder[x].stage
         /\ progressEvents[f][x].progress = StageOrder[x].progress
    /\ completeEvents[f] > 0 => Len(progressEvents[f]) = Len(StageOrder)

\* One conversion has completed after its four events while another failed
\* after its second.
C13_Witness ==
  \E f, g \in FileIds :
    /\ completeEvents[f] = 1 /\ Len(progressEvents[f]) = 4
    /\ pc[g] = "failed" /\ Len(progressEvents[g]) = 2

\* -------------------------------------------------------------------- C14
\* C14: no two conversions started on the converter have the same id.
C14_IdsUnique ==
  \A f, g \in FileIds :
    (f # g /\ convId[f] # 0 /\ convId[g] # 0) => convId[f] # convId[g]

\* -------------------------------------------------------------------- C18
RECURSIVE Total(_, _)
Total(count, n) == IF n = 0 THEN 0 ELSE count[n] + Total(count, n - 1)
Emitted(event) ==
  IF event = "progress"
  THEN Total([f \in FileIds |-> Len(progressEvents[f])], MaxFiles)
  ELSE IF event = "complete"
  THEN Total(completeEvents, MaxFiles)
  ELSE Total([f \in FileIds |-> Len(errorEvents[f])], MaxFiles)
CalledForEveryEvent(event, cbs) ==
  \A x \in 1..Len(cbs) : calls[event][cbs[x].id] = Emitted(event)

\* C18: whatever the listeners throw, every listener of an event has been
\* called once for every event of its kind; no conversion has an error event
\* that stems from a listener, a conversion that ran its stages has its
\* completion event, no error event and a fulfilled promise; and the batch
\* goes on: convertMultiple is not rejected and returns only after every
\* file was started.
C18_ListenersIsolated ==
  /\ CalledForEveryEvent("progress", progressCallbacks)
  /\ CalledForEveryEvent("complete", completeCallbacks)
  /\ CalledForEveryEvent("error", errorCallbacks)
  /\ \A f \in FileIds :
       /\ \A x \in 1..Len(errorEvents[f]) :
            ~Includes(errorEvents[f][x].details, "listener")
       /\ Len(progressEvents[f]) = 4
            => (pc[f] = "completed" /\ completeEvents[f] = 1
                /\ errorEvents[f] = <<>>)
  /\ mpc # "rejected"
  /\ mpc = "returned" => \A f \in Files : Started(f)

\* Both files were converted and returned although the first progress
\* listener, the first completion listener and the error listener throw.
C18_Witness ==
  /\ Len(progressCallbacks) = 2
  /\ progressCallbacks[1].behaviour = "throws"
  /\ Len(completeCallbacks) = 2
  /\ completeCallbacks[1].behaviour = "throws"
  /\ Len(errorCallbacks) = 1
  /\ errorCallbacks[1].behaviour = "throws"
  /\ mpc = "returned"
  /\ results = <<1, 2>>
  /\ calls["progress"][2] = 8
  /\ calls["complete"][2] = 2

\* -------------------------------------------------------------------- C19
\* C19: a conversion whose token cancelAllConversions aborted never has a
\* completion event and, once settled, has one error event; a conversion
\* that completed has no error event. (Here only cancelAllConversions aborts
\* tokens.)
C19_CancelAllEndsEveryConversion ==
  \A f \in FileIds :
    /\ aborted[f] =>
         /\ completeEvents[f] = 0
         /\ Settled(f) => Len(errorEvents[f]) = 1
    /\ pc[f] = "completed" => errorEvents[f] = <<>>

\* -------------------------------------------------------------------- C20
\* C20: a conversion whose token is aborted gets no further progress event
\* and moves to no further stage, its next step is the failure; and the step
\* that aborts the token does not settle the conversion, which stays with
\* the stage it is in until that stage has ended.
C20_CancelledStopsAtBoundary ==
  [][\A f \in FileIds :
       /\ aborted[f] =>
            /\ progressEvents'[f] = progressEvents[f]
            /\ pc'[f] \in {pc[f], "failed"}
       /\ (aborted'[f] /\ ~aborted[f]) =>
            /\ errorEvents'[f] = errorEvents[f]
            /\ pc'[f] # "failed"]_vars

\* A conversion cancelled during its second stage has failed with the
\* cancelled error after two progress events.
C20_Witness ==
  \E f \in FileIds :
    /\ aborted[f] /\ cancelRequested[f]
    /\ pc[f] = "failed"
    /\ Len(progressEvents[f]) = 2
    /\ errorEvents[f][1].message = CancelledMessage

\* -------------------------------------------------------------------- C21
Registry == [reg |-> activeConversions, ab |-> aborted, cr |-> cancelRequested]

\* C21: an id is in the registry only for a conversion that has started
\* under this id, is still in one of its stages and was not cancelled; when
\* the completion or error listeners of a conversion were called its id was
\* no longer in the registry; and cancelConversion with an id that is not in
\* the registry leaves the registry and every controller as they are.
C21_RegistryInvariant ==
  /\ \A id \in IdSpace :
       LET f == activeConversions[id]
       IN  f # 0 => /\ convId[f] = id
                    /\ Started(f)
                    /\ InFlight(f)
                    /\ ~aborted[f]
  /\ \A f \in FileIds : ~activeAtNotify[f]
  /\ \A id \in IdSpace :
       activeConversions[id] = 0 => cancelConversionIn(Registry, id) = Registry

\* One conversion was cancelled by its id and has told its error listeners,
\* and the id of another, which is in its second stage, is in the registry.
C21_Witness ==
  \E f, h \in FileIds :
    /\ cancelRequested[f] /\ pc[f] = "failed" /\ Len(errorEvents[f]) = 1
    /\ activeConversions[convId[f]] = 0
    /\ pc[h] = "processing" /\ activeConversions[convId[h]] = h

\* -------------------------------------------------------------------- C22
\* C22: in a batch with maxConcurrentConversions >= 1, while a conversion
\* waits for the blob of the image it drew, the canvas it drew on still holds
\* that image: no other conversion has sized or drawn the same canvas in the
\* meantime.
C22_OwnEncodingSurface ==
  maxConcurrent >= 1 =>
    \A f \in FileIds : pc[f] = "converting" => canvas = f

\* -------------------------------------------------------------------- C23
ErrorKinds == {"unsupported_format", "browser_compatibility",
               "file_too_large", "processing_error", "unknown_error"}
\* The failure is a cancellation, a WebP failure or a size failure.
Classified(error) ==
  \/ Includes(error.message, "cancelled")
  \/ Includes(error.message, "WebP")
  \/ Includes(error.message, "size")
  \/ Includes(error.message, "large")
\* The words of s from position n on are the words of t.
EndsWith(s, t) ==
  /\ Len(s) >= Len(t)
  /\ SubSeq(s, Len(s) - Len(t) + 1, Len(s)) = t
Classifications ==
  {lastCall[x] : x \in {y \in 1..Len(lastCall) :
                          lastCall[y].method = "createConversionError"}}

C24_DisposedGuard ==
  /\ [](isDisposed =>
         /\ \A id \in IdSpace : activeConversions[id] = 0
         /\ progressCallbacks = <<>>
         /\ completeCallbacks = <<>>
         /\ errorCallbacks = <<>>)
  /\ [][isDisposed =>
         /\ isDisposed'
         /\ UNCHANGED <<callbackVars, calls, activeConversions, convId,
                        aborted, progressEvents, completeEvents, canvas>>
         /\ mpc = "idle" => mpc' \in {"idle", "rejected"}
         /\ \A f \in FileIds : pc[f] = "none" => pc'[f] \in {"none", "refused"}
         /\ lastCall' # lastCall =>
              lastCall'[1].threw = IF lastCall'[1].method = "dispose"
                                   THEN <<>> ELSE <<DisposedError>>]_vars

\* A conversion that was in flight when the converter was disposed has
\* failed, its error event went to no listener, and the subscription tried
\* afterwards threw.
C24_Witness ==
  /\ isDisposed
  /\ \E f \in FileIds :
       /\ aborted[f] /\ pc[f] = "failed" /\ Len(errorEvents[f]) = 1
       /\ Len(progressEvents[f]) = 2
  /\ calls["progress"][1] = 2
  /\ calls["error"][1] = 0
  /\ lastCall # <<>>
  /\ lastCall[1].method = "onConversionError"
  /\ lastCall[1].threw = <<DisposedError>>

\* -------------------------------------------------------------------- C25
\* C25: when every stage settles, a convertMultiple call that waits for a
\* chunk returns in the end, whatever maxConcurrentConversions is (or its
\* loop index has gone down as far as it is followed).
C25_ConvertMultipleReturns ==
  (mpc = "awaiting") ~>
    (mpc = "returned" \/ i + maxConcurrent < -MaxDescent)

\* -------------------------------------------------------------------- C26
\* C26: when a convertMultiple call with maxConcurrentConversions >= 1 has
\* returned, no file of its list is in a stage or has its id in the
\* registry, and from then on no progress, completion or error event is
\* emitted for any of them.
C26_SettledAtReturn ==
  /\ []((mpc = "returned" /\ maxConcurrent >= 1) =>
          \A f \in Files :
            /\ ~InFlight(f)
            /\ \A id \in IdSpace : activeConversions[id] # f)
  /\ [][(mpc = "returned" /\ maxConcurrent >= 1) =>
          \A f \in Files :
            /\ progressEvents'[f] = progressEvents[f]
            /\ completeEvents'[f] = completeEvents[f]
            /\ errorEvents'[f] = errorEvents[f]]_vars

\* -------------------------------------------------------------------- C27
\* C27: once cancelAllConversions has aborted the token of a conversion of
\* the running batch, no file of the batch that was not started yet is
\* started: it gets no progress event. (Here only cancelAllConversions
\* aborts tokens.)
C27_NoStartAfterCancelAll ==
  [][(mpc = "awaiting" /\ \E g \in Files : aborted[g]) =>
       \A f \in Files :
         pc[f] = "none" =>
           (pc'[f] = "none" /\ progressEvents'[f] = <<>>)]_vars

\* C28: after Application.reset() the statistics reflect only conversions
\* started after the reset: when a conversion that was in flight at a reset
\* (its controller was aborted by the reset, the only caller of abort here)
\* reaches its end, no counter changes.
C28_InFlightNeverCounts ==
  [][\A f \in FileIds :
       (aborted[f] /\ pc'[f] # pc[f]) => stats' = stats]_vars

\* C29: the number of ids in the registry of the converter never exceeds
\* maxConcurrentConversions (>= 1) of the config the batches are converted
\* with, also when a second batch is submitted while the first is running.
C29_RegistryWithinLimit ==
  (mpc # "idle" /\ maxConcurrent >= 1) =>
    Cardinality({id \in IdSpace : activeConversions[id] # 0}) <= maxConcurrent

\* C30: when a progress, completion or error event is emitted, every
\* listener subscribed to it at that moment is called exactly once with it,
\* also when a listener calls its own unsubscribe during the dispatch, and a
\* listener that is not subscribed (any more) is not called.
C30_DeliveryComplete ==
  [][\A event \in Events :
       calls'[event] # calls[event] =>
         \A l \in ListenerIds :
           calls'[event][l] = calls[event][l] +
             (IF \E x \in 1..Len(Callbacks[event]) :
                   Callbacks[event][x].id = l
              THEN 1 ELSE 0)]_vars

=============================================================================
